---------------------------- MODULE Spec2Model ----------------------------
(***************************************************************************)
(* A model of samples/sample.py: the User dataclass (email validation and  *)
(* to_dict), the logged decorator, UserService (an insertion-ordered dict  *)
(* used as a cache, fetch_by_id with its single await point, create_user,  *)
(* get_users_by_role) and the debounce decorator.                          *)
(*                                                                         *)
(* Strings that the code inspects character by character (emails, names)   *)
(* are sequences of one-character strings.  A Python object is a record     *)
(* whose "obj" field is its identity.                                      *)
(***************************************************************************)
EXTENDS Integers, Sequences, FiniteSets, TLC

VARIABLES
    uargs,      \* SpecUser: the arguments User(...) is given
    ures,       \* SpecUser: outcome of the last User(...) construction
    udict,      \* SpecUser: result of the last to_dict() call
    delay,      \* SpecDebounce: the delay given to debounce(delay)
    wall,       \* SpecDebounce: time.time()
    last_call,  \* SpecDebounce: the wrapper's nonlocal last_call
    dres,       \* SpecDebounce: outcome of the last wrapper call
    dcalls,     \* SpecDebounce: number of wrapper calls made so far
    fres,       \* SpecDebounce: outcome of the wrapped function's last run
    hist,       \* SpecDebounce: times at which the wrapped function ran
    lpc,        \* SpecLogged: the call in progress inside logged's wrapper
    console,    \* SpecLogged: lines printed by the calls made so far
    lres,       \* SpecLogged: outcome of the last finished wrapper call
    cache,      \* service: BaseService._cache, an insertion-ordered dict
    tasks,      \* service: each task's position in fetch_by_id
    last,       \* service: the last call that finished, with its outcome
    firstRet,   \* service: per id, the first user a fetch_by_id returned
    built,      \* service: per id, how many User objects fetch_by_id built
    clobbered,  \* service: a resuming fetch_by_id replaced another's entry
    nextObj,    \* service: identity of the next object allocated
    now         \* service: datetime.now()

userVars == <<uargs, ures, udict>>
debVars  == <<delay, wall, last_call, dres, dcalls, fres, hist>>
logVars  == <<lpc, console, lres>>
svcVars  == <<cache, tasks, last, firstRet, built, clobbered, nextObj, now>>
vars     == <<userVars, debVars, logVars, svcVars>>

\* Python values that the model compares with one another are records: None,
\* and the two ways a call ends.
None == [kind |-> "None"]

Return(v) == [kind |-> "return", value |-> v]

Raise(e, msg) == [kind |-> "raise", exc |-> e, msg |-> msg]

\* The exception classes of the model that derive from Exception, and those
\* that derive from BaseException only (asyncio.CancelledError since 3.8).
Exceptions == {"ValueError", "TimeoutError", "RuntimeError"}

BaseOnly == {"CancelledError"}

----------------------------------------------------------------------------
(* Bounds of the model. *)

MaxEmailLen == 6    \* longest email string tried against the pattern
MaxMicro == 1       \* datetime.now(): microseconds range over 0..MaxMicro
MaxId == 2          \* fetch_by_id is called with ids 1..MaxId
MaxObj == 2         \* User objects the service builds in one behaviour
MaxDelay == 3       \* debounce(delay) with delay in 0..MaxDelay
MaxWall == 6        \* time.time() ranges over 0..MaxWall
MaxCalls == 4       \* calls of the debounced function in one behaviour
MaxLogCalls == 3    \* calls of the logged function in one behaviour

----------------------------------------------------------------------------
(* User: sample.py lines 37-74. *)

\* The members of UserRole, by the value auto() gives them.
ADMIN == 1
USER == 2
GUEST == 3

UserRole == {ADMIN, USER, GUEST}

\* role.name
RoleName(role) ==
    CASE role = ADMIN -> "ADMIN"
      [] role = USER  -> "USER"
      [] role = GUEST -> "GUEST"

\* Characters that \s matches, among the characters of the model.
Whitespace == {" ", "\n"}

\* The characters emails are drawn from.
Alphabet == {"a", "@", "."} \cup Whitespace

\* The character class [^\s@].
NotSpaceAt(c) == c \notin Whitespace /\ c # "@"

\* s matches [^\s@]+@[^\s@]+\.[^\s@]+ from its first to its last character.
MatchesWhole(s) ==
    \E i \in 1..Len(s), j \in 1..Len(s) :
        /\ s[i] = "@"
        /\ s[j] = "."
        /\ 1 < i
        /\ i + 1 < j
        /\ j < Len(s)
        /\ \A k \in 1..Len(s) : k # i => NotSpaceAt(s[k])

\* re.match(r'^[^\s@]+@[^\s@]+\.[^\s@]+$', email): without re.MULTILINE, $
\* matches at the end of the string and also just before a newline that is
\* the last character of the string.
_is_valid_email(email) ==
    \/ MatchesWhole(email)
    \/ /\ Len(email) > 0
       /\ email[Len(email)] = "\n"
       /\ MatchesWhole(SubSeq(email, 1, Len(email) - 1))

\* datetime values, all within one second, ordered as datetime orders them.
Datetimes == [sec : {0}, micro : 0..MaxMicro]

Before(a, b) == a.sec < b.sec \/ (a.sec = b.sec /\ a.micro < b.micro)

\* datetime.isoformat(): the fractional part is left out when it is zero.
isoformat(dt) ==
    IF dt.micro = 0 THEN <<"T", dt.sec>> ELSE <<"T", dt.sec, ".", dt.micro>>

\* The fields the dataclass declares (lines 47-52).
UserFields == {"id", "name", "email", "role", "metadata", "created_at"}

\* User(id, name, email, role, metadata, created_at): the generated __init__
\* followed by __post_init__.  Returns the new object or raises ValueError.
NewUser(obj, id, name, email, role, metadata, created_at) ==
    IF ~_is_valid_email(email)
    THEN Raise("ValueError", email)
    ELSE Return([obj |-> obj, id |-> id, name |-> name, email |-> email,
                 role |-> role, metadata |-> metadata,
                 created_at |-> created_at])

to_dict(self) ==
    [id |-> self.id, name |-> self.name, email |-> self.email,
     role |-> RoleName(self.role),
     created_at |-> isoformat(self.created_at)]

\* Inputs of the User specification.
Emails == UNION {[1..n -> Alphabet] : n \in 0..MaxEmailLen}

Names == {<<"A", "l">>}

Metadatas == {{}, {<<"k", 1>>}}

\* Well-formed emails the other fields are varied with; the second has a
\* newline after it.
ValidSamples == {<<"a", "@", "a", ".", "a">>, <<"a", "@", "a", ".", "a", "\n">>}

\* Every email with the dataclass's defaults for the other fields, and every
\* choice of the other fields with the sample emails.
UserInputs ==
    {[id |-> 1, name |-> <<"A", "l">>, email |-> e, role |-> USER,
      metadata |-> {}, created_at |-> [sec |-> 0, micro |-> 0]] :
        e \in Emails}
    \cup [id : 1..2, name : Names, email : ValidSamples, role : UserRole,
          metadata : Metadatas, created_at : Datetimes]

\* User(**uargs) is evaluated.
Construct ==
    /\ ures = None
    /\ ures' = NewUser(0, uargs.id, uargs.name, uargs.email, uargs.role,
                       uargs.metadata, uargs.created_at)
    /\ UNCHANGED <<uargs, udict>>

\* to_dict() is called on the user constructed.
ToDict ==
    /\ ures.kind = "return"
    /\ udict = None
    /\ udict' = to_dict(ures.value)
    /\ UNCHANGED <<uargs, ures>>

----------------------------------------------------------------------------
(* logged: sample.py lines 78-90. *)

CallingLine(fn, args) == [tag |-> "Calling", fn |-> fn, what |-> args]

ReturnedLine(fn, result) == [tag |-> "returned", fn |-> fn, what |-> result]

RaisedLine(fn, e) == [tag |-> "raised", fn |-> fn, what |-> e]

\* logged without the `raise` of line 89: the exception is printed and
\* wrapper returns None.
logged_exit_swallow(fn, outcome) ==
    IF outcome.kind = "return"
    THEN [out |-> <<ReturnedLine(fn, outcome.value)>>, outcome |-> outcome]
    ELSE IF outcome.exc \in Exceptions
    THEN [out |-> <<RaisedLine(fn, outcome.exc)>>, outcome |-> Return(None)]
    ELSE [out |-> <<>>, outcome |-> outcome]

\* What wrapper does once `await func(*args, **kwargs)` has ended with
\* `outcome`: the lines it prints and the way wrapper itself ends.  An
\* exception outside Exception passes through the except clause unlogged.
logged_exit(fn, outcome) ==
    IF outcome.kind = "return"
    THEN [out |-> <<ReturnedLine(fn, outcome.value)>>, outcome |-> outcome]
    ELSE IF outcome.exc \in Exceptions
    THEN [out |-> <<RaisedLine(fn, outcome.exc)>>, outcome |-> outcome]
    ELSE [out |-> <<>>, outcome |-> outcome]

----------------------------------------------------------------------------
(* BaseService and UserService: sample.py lines 94-179. *)

\* The dict is a sequence of entries in insertion order.
CacheKeys(c) == {c[i].key : i \in 1..Len(c)}

CacheValues(c) == [i \in 1..Len(c) |-> c[i].val]

_get_cache(c, id) ==
    IF id \in CacheKeys(c)
    THEN (CHOOSE e \in {c[i] : i \in 1..Len(c)} : e.key = id).val
    ELSE None

\* _set_cache that keeps the newest entry only.
_set_cache_evicting(c, id, item) == <<[key |-> id, val |-> item]>>

\* self._cache[id] = item: a present key keeps its place, a new one is added
\* at the end.
_set_cache(c, id, item) ==
    IF id \in CacheKeys(c)
    THEN [i \in 1..Len(c) |->
            IF c[i].key = id THEN [key |-> id, val |-> item] ELSE c[i]]
    ELSE Append(c, [key |-> id, val |-> item])

\* str(n) for a natural number n, as characters.
DigitChar(d) == <<"0", "1", "2", "3", "4", "5", "6", "7", "8", "9">>[d + 1]

RECURSIVE Digits(_)
Digits(n) ==
    IF n < 10 THEN <<DigitChar(n)>>
    ELSE Digits(n \div 10) \o <<DigitChar(n % 10)>>

\* f"User {id}" and f"user{id}@example.com" (lines 139-140).
FetchName(id) == <<"U", "s", "e", "r", " ">> \o Digits(id)

FetchEmail(id) ==
    <<"u", "s", "e", "r">> \o Digits(id)
        \o <<"@", "e", "x", "a", "m", "p", "l", "e", ".", "c", "o", "m">>

\* The tasks that call into the one UserService.
Tasks == {"t1", "t2"}

Ids == 1..MaxId

Idle == [pc |-> "idle", id |-> 0, out |-> <<>>]

Quiescent == \A t \in Tasks : tasks[t] = Idle

\* How the simulated call of fetch_by_id (line 134, standing for an HTTP
\* request, under asyncio.timeout) can end.
SimOutcomes == {"ok", "timeout", "error"}

\* The record of a finished call.
Finished(op, arg, sim, out, outcome) ==
    [op |-> op, arg |-> arg, sim |-> sim, out |-> out, outcome |-> outcome]

NoteFirst(id, outcome) ==
    IF outcome.kind = "return" /\ outcome.value # None /\ firstRet[id] = None
    THEN [firstRet EXCEPT ![id] = outcome.value]
    ELSE firstRet

\* Time passes.
Tick ==
    /\ \E later \in Datetimes : Before(now, later) /\ now' = later
    /\ UNCHANGED <<cache, tasks, last, firstRet, built, clobbered, nextObj>>

\* fetch_by_id(id) from the wrapper's first line to the cache check and,
\* on a miss, to `await asyncio.sleep(0.1)` (lines 82-84, 127-134).
FetchStart(t, id) ==
    /\ tasks[t] = Idle
    /\ LET calling == <<CallingLine("fetch_by_id", id)>>
           cached == _get_cache(cache, id)
       IN  IF cached # None
           THEN LET fin == logged_exit("fetch_by_id", Return(cached))
                IN  /\ last' = Finished("fetch_by_id", id, "hit",
                                        calling \o fin.out, fin.outcome)
                    /\ firstRet' = NoteFirst(id, fin.outcome)
                    /\ UNCHANGED tasks
           ELSE /\ tasks' = [tasks EXCEPT
                               ![t] = [pc |-> "sleeping", id |-> id,
                                       out |-> calling]]
                /\ UNCHANGED <<last, firstRet>>
    /\ UNCHANGED <<cache, built, clobbered, nextObj, now>>

\* fetch_by_id whose catch-all raises again instead of returning None.
fetch_body_reraise(c, id, sim, obj, created_at) ==
    IF sim = "timeout"
    THEN [cache |-> c, out |-> <<[tag |-> "Timeout fetching", what |-> id]>>,
          outcome |-> Return(None), built |-> FALSE]
    ELSE IF sim = "error"
    THEN [cache |-> c, out |-> <<[tag |-> "Error fetching", what |-> id]>>,
          outcome |-> Raise("RuntimeError", <<>>), built |-> FALSE]
    ELSE LET made == NewUser(obj, id, FetchName(id), FetchEmail(id), USER,
                             {}, created_at)
         IN  IF made.kind = "raise"
             THEN [cache |-> c,
                   out |-> <<[tag |-> "Error fetching", what |-> id]>>,
                   outcome |-> made, built |-> FALSE]
             ELSE [cache |-> _set_cache(c, id, made.value), out |-> <<>>,
                   outcome |-> Return(made.value), built |-> TRUE]

\* What the body of fetch_by_id does after the await, given how the
\* simulated call ended (lines 134-152): the cache, the lines printed and
\* the way the body ends.
fetch_body(c, id, sim, obj, created_at) ==
    IF sim = "timeout"
    THEN [cache |-> c, out |-> <<[tag |-> "Timeout fetching", what |-> id]>>,
          outcome |-> Return(None), built |-> FALSE]
    ELSE IF sim = "error"
    THEN [cache |-> c, out |-> <<[tag |-> "Error fetching", what |-> id]>>,
          outcome |-> Return(None), built |-> FALSE]
    ELSE LET made == NewUser(obj, id, FetchName(id), FetchEmail(id), USER,
                             {}, created_at)
         IN  IF made.kind = "raise"
             THEN [cache |-> c,
                   out |-> <<[tag |-> "Error fetching", what |-> id]>>,
                   outcome |-> Return(None), built |-> FALSE]
             ELSE [cache |-> _set_cache(c, id, made.value), out |-> <<>>,
                   outcome |-> Return(made.value), built |-> TRUE]

\* fetch_by_id resumes after the await and runs to its end, through the
\* wrapper's last lines (lines 85-89, 134-152).
FetchResume(t) ==
    /\ tasks[t].pc = "sleeping"
    /\ nextObj <= MaxObj
    /\ \E sim \in SimOutcomes :
          LET id == tasks[t].id
              body == fetch_body(cache, id, sim, nextObj, now)
              fin == logged_exit("fetch_by_id", body.outcome)
          IN  /\ cache' = body.cache
              /\ last' = Finished("fetch_by_id", id, sim,
                                  tasks[t].out \o body.out \o fin.out,
                                  fin.outcome)
              /\ firstRet' = NoteFirst(id, fin.outcome)
              /\ built' = IF body.built
                          THEN [built EXCEPT ![id] = @ + 1] ELSE built
              /\ clobbered' = (clobbered \/
                                (body.built /\ id \in CacheKeys(cache)))
              /\ nextObj' = IF body.built THEN nextObj + 1 ELSE nextObj
    /\ tasks' = [tasks EXCEPT ![t] = Idle]
    /\ UNCHANGED now

\* create_user that stores the record under the new id before the record
\* is validated.
create_user_store_first(name, email, role) ==
    /\ nextObj <= MaxObj
    /\ LET new_id == Len(cache) + 1
           made == NewUser(nextObj, new_id, name, email, role, {}, now)
           user == [obj |-> nextObj, id |-> new_id, name |-> name,
                    email |-> email, role |-> role, metadata |-> {},
                    created_at |-> now]
       IN  /\ cache' = _set_cache(cache, new_id, user)
           /\ last' = Finished("create_user", email, "none", <<>>, made)
           /\ nextObj' = nextObj + 1
    /\ UNCHANGED <<tasks, firstRet, built, clobbered, now>>

\* create_user(name, email, role) (lines 154-172); it never awaits.
create_user(name, email, role) ==
    /\ nextObj <= MaxObj
    /\ LET new_id == Len(cache) + 1
           made == NewUser(nextObj, new_id, name, email, role, {}, now)
       IN  IF made.kind = "raise"
           THEN /\ last' = Finished("create_user", email, "none", <<>>, made)
                /\ UNCHANGED <<cache, nextObj>>
           ELSE /\ cache' = _set_cache(cache, new_id, made.value)
                /\ last' = Finished("create_user", email, "none", <<>>, made)
                /\ nextObj' = nextObj + 1
    /\ UNCHANGED <<tasks, firstRet, built, clobbered, now>>

\* get_users_by_role(role) (lines 174-179).
get_users_by_role(role) ==
    /\ last' = Finished("get_users_by_role", role, "none", <<>>,
                        Return([list |-> SelectSeq(CacheValues(cache),
                                           LAMBDA user : user.role = role)]))
    /\ UNCHANGED <<cache, tasks, firstRet, built, clobbered, nextObj, now>>

\* The emails create_user is called with: one well-formed, one not.
CreateEmails == {<<"a", "@", "b", ".", "c">>, <<"a", " ", "b">>}

\* The roles create_user is called with: the default and one other.
CreateRoles == {USER, ADMIN}

\* Calls made one after the other, each awaited before the next (as main
\* does).
NextSeq ==
    \/ Tick /\ UNCHANGED <<userVars, debVars, logVars>>
    \/ \E t \in Tasks, id \in Ids :
          Quiescent /\ FetchStart(t, id)
            /\ UNCHANGED <<userVars, debVars, logVars>>
    \/ \E t \in Tasks :
          FetchResume(t) /\ UNCHANGED <<userVars, debVars, logVars>>
    \/ \E name \in Names, email \in CreateEmails, role \in CreateRoles :
          Quiescent /\ create_user(name, email, role)
            /\ UNCHANGED <<userVars, debVars, logVars>>
    \/ \E role \in UserRole :
          Quiescent /\ get_users_by_role(role)
            /\ UNCHANGED <<userVars, debVars, logVars>>

\* Tasks on one event loop: a task runs until it awaits or ends, and any
\* task may run next.
NextConc ==
    \/ Tick /\ UNCHANGED <<userVars, debVars, logVars>>
    \/ \E t \in Tasks, id \in Ids :
          FetchStart(t, id) /\ UNCHANGED <<userVars, debVars, logVars>>
    \/ \E t \in Tasks :
          FetchResume(t) /\ UNCHANGED <<userVars, debVars, logVars>>
    \/ \E name \in Names, email \in CreateEmails, role \in CreateRoles :
          create_user(name, email, role)
            /\ UNCHANGED <<userVars, debVars, logVars>>
    \/ \E role \in UserRole :
          get_users_by_role(role)
            /\ UNCHANGED <<userVars, debVars, logVars>>

----------------------------------------------------------------------------
(* debounce: sample.py lines 183-202. *)

\* What the wrapped function may do when it runs.
FuncOutcomes == {Return([v |-> 1]), Return(None), Raise("ValueError", <<>>)}

\* time.time() advances.
DebTick ==
    /\ \E w \in (wall + 1)..MaxWall : wall' = w
    /\ UNCHANGED <<delay, last_call, dres, dcalls, fres, hist>>

\* wrapper that stamps last_call on a suppressed call too.
wrapper_stamps_always(fo) ==
    /\ dcalls < MaxCalls
    /\ dcalls' = dcalls + 1
    /\ LET current_time == wall
       IN  IF current_time - last_call >= delay
           THEN /\ last_call' = current_time
                /\ hist' = Append(hist, current_time)
                /\ fres' = fo
                /\ dres' = fo
           ELSE /\ last_call' = current_time
                /\ dres' = Return(None)
                /\ UNCHANGED <<hist, fres>>
    /\ UNCHANGED <<delay, wall>>

\* One call of wrapper (lines 189-199); fo is what func does if it runs.
wrapper(fo) ==
    /\ dcalls < MaxCalls
    /\ dcalls' = dcalls + 1
    /\ LET current_time == wall
       IN  IF current_time - last_call >= delay
           THEN /\ last_call' = current_time
                /\ hist' = Append(hist, current_time)
                /\ fres' = fo
                /\ dres' = fo
           ELSE /\ dres' = Return(None)
                /\ UNCHANGED <<last_call, hist, fres>>
    /\ UNCHANGED <<delay, wall>>

----------------------------------------------------------------------------
(* A function wrapped with logged, called on its own (lines 78-90). *)

\* How the wrapped operation may end.
OpOutcomes ==
    {Return([v |-> 1]), Return(None)}
        \cup {Raise(e, <<>>) : e \in Exceptions \cup BaseOnly}

LogIdle == [pc |-> "idle", mark |-> 0, n |-> 0, op |-> None]

\* wrapper is entered: it prints the Calling line and awaits func (lines
\* 82-84).
LoggedCall(arg) ==
    /\ lpc.pc \in {"idle", "done"}
    /\ lpc.n < MaxLogCalls
    /\ console' = Append(console, CallingLine("op", arg))
    /\ lpc' = [pc |-> "awaiting", mark |-> Len(console), n |-> lpc.n + 1,
               op |-> None]
    /\ UNCHANGED lres

\* func ends with `outcome` and wrapper runs to its end (lines 84-89).
LoggedFinish(outcome) ==
    /\ lpc.pc = "awaiting"
    /\ LET fin == logged_exit("op", outcome)
       IN  /\ console' = console \o fin.out
           /\ lres' = fin.outcome
    /\ lpc' = [lpc EXCEPT !.pc = "done", !.op = outcome]

----------------------------------------------------------------------------
(* Specifications. *)

NextUser ==
    \/ Construct /\ UNCHANGED <<debVars, logVars, svcVars>>
    \/ ToDict /\ UNCHANGED <<debVars, logVars, svcVars>>

NextDeb ==
    \/ DebTick /\ UNCHANGED <<userVars, logVars, svcVars>>
    \/ \E fo \in FuncOutcomes :
          wrapper(fo) /\ UNCHANGED <<userVars, logVars, svcVars>>

NextLog ==
    \/ \E arg \in 1..2 :
          LoggedCall(arg) /\ UNCHANGED <<userVars, debVars, svcVars>>
    \/ \E outcome \in OpOutcomes :
          LoggedFinish(outcome) /\ UNCHANGED <<userVars, debVars, svcVars>>

\* Each specification starts every component in the state its constructor
\* or decorator leaves it in, and draws its own inputs.
InitUser ==
    /\ uargs \in UserInputs
    /\ ures = None
    /\ udict = None
    /\ delay = 0
    /\ wall = 0
    /\ last_call = 0
    /\ dres = None
    /\ dcalls = 0
    /\ fres = None
    /\ hist = <<>>
    /\ lpc = LogIdle
    /\ console = <<>>
    /\ lres = None
    /\ cache = <<>>
    /\ tasks = [t \in Tasks |-> Idle]
    /\ last = Finished("none", 0, "none", <<>>, Return(None))
    /\ firstRet = [id \in Ids |-> None]
    /\ built = [id \in Ids |-> 0]
    /\ clobbered = FALSE
    /\ nextObj = 1
    /\ now = [sec |-> 0, micro |-> 0]

InitDeb ==
    /\ uargs = None
    /\ ures = None
    /\ udict = None
    /\ delay \in 0..MaxDelay
    /\ wall = 0
    /\ last_call = 0
    /\ dres = None
    /\ dcalls = 0
    /\ fres = None
    /\ hist = <<>>
    /\ lpc = LogIdle
    /\ console = <<>>
    /\ lres = None
    /\ cache = <<>>
    /\ tasks = [t \in Tasks |-> Idle]
    /\ last = Finished("none", 0, "none", <<>>, Return(None))
    /\ firstRet = [id \in Ids |-> None]
    /\ built = [id \in Ids |-> 0]
    /\ clobbered = FALSE
    /\ nextObj = 1
    /\ now = [sec |-> 0, micro |-> 0]

InitLog ==
    /\ uargs = None
    /\ ures = None
    /\ udict = None
    /\ delay = 0
    /\ wall = 0
    /\ last_call = 0
    /\ dres = None
    /\ dcalls = 0
    /\ fres = None
    /\ hist = <<>>
    /\ lpc = LogIdle
    /\ console = <<>>
    /\ lres = None
    /\ cache = <<>>
    /\ tasks = [t \in Tasks |-> Idle]
    /\ last = Finished("none", 0, "none", <<>>, Return(None))
    /\ firstRet = [id \in Ids |-> None]
    /\ built = [id \in Ids |-> 0]
    /\ clobbered = FALSE
    /\ nextObj = 1
    /\ now = [sec |-> 0, micro |-> 0]

InitSvc ==
    /\ uargs = None
    /\ ures = None
    /\ udict = None
    /\ delay = 0
    /\ wall = 0
    /\ last_call = 0
    /\ dres = None
    /\ dcalls = 0
    /\ fres = None
    /\ hist = <<>>
    /\ lpc = LogIdle
    /\ console = <<>>
    /\ lres = None
    /\ cache = <<>>
    /\ tasks = [t \in Tasks |-> Idle]
    /\ last = Finished("none", 0, "none", <<>>, Return(None))
    /\ firstRet = [id \in Ids |-> None]
    /\ built = [id \in Ids |-> 0]
    /\ clobbered = FALSE
    /\ nextObj = 1
    /\ now = [sec |-> 0, micro |-> 0]

SpecUser == InitUser /\ [][NextUser]_vars

SpecDebounce == InitDeb /\ [][NextDeb]_vars

SpecLogged == InitLog /\ [][NextLog]_vars

SpecSeq == InitSvc /\ [][NextSeq]_vars

SpecConc == InitSvc /\ [][NextConc]_vars

Spec == SpecConc

----------------------------------------------------------------------------
(* The claims. *)

\* The lookup that finished last was a fetch_by_id for an id that some
\* fetch_by_id had already returned a user for, and it returned that user.
SameAsFirst ==
    (last.op = "fetch_by_id" /\ firstRet[last.arg] # None)
        => last.outcome = Return(firstRet[last.arg])

\* C1: with calls made one after the other, once fetch_by_id(k) has returned
\* a user, every later fetch_by_id(k) returns that same user.
C1_RepeatedLookupSame == Quiescent => SameAsFirst

\* An email as the claim describes a malformed one: it holds a whitespace
\* character, or not exactly one '@', or nothing before the '@', or no '.'
\* after the '@' with something on each side of it.
Malformed(e) ==
    LET ats == {i \in 1..Len(e) : e[i] = "@"}
    IN  \/ \E k \in 1..Len(e) : e[k] \in Whitespace
        \/ Cardinality(ats) # 1
        \/ 1 \in ats
        \/ \A i \in ats :
              ~ \E j \in (i + 2)..(Len(e) - 1) : e[j] = "."

\* C2: constructing a User with a malformed email raises ValueError, and no
\* User object is produced.
C2_MalformedRejected ==
    (ures # None /\ Malformed(uargs.email))
        => ures = Raise("ValueError", uargs.email)

\* C3: the dictionary to_dict() returns carries the id, name and email given
\* at construction, the name of the role, the ISO form of the creation time,
\* and represents every field of the record.
C3_ToDictRoundTrips ==
    udict # None =>
        /\ udict.id = uargs.id
        /\ udict.name = uargs.name
        /\ udict.email = uargs.email
        /\ udict.role \in {"ADMIN", "USER", "GUEST"}
        /\ (udict.role = "ADMIN") = (uargs.role = ADMIN)
        /\ (udict.role = "GUEST") = (uargs.role = GUEST)
        /\ udict.created_at = isoformat(uargs.created_at)
        /\ \A f \in UserFields : f \in DOMAIN udict

\* The time the wrapped function last ran, 0 before it has run.
LastRun == IF hist = <<>> THEN 0 ELSE hist[Len(hist)]

\* A call of the debounced function runs the wrapped function and ends as
\* it ends exactly when at least `delay` has passed since the wrapped
\* function last ran; otherwise it returns None, runs nothing and leaves
\* last_call as it was.
DebounceGate ==
    dcalls' # dcalls =>
        IF wall - LastRun >= delay
        THEN /\ hist' = Append(hist, wall)
             /\ dres' = fres'
             /\ dres' \in FuncOutcomes
        ELSE /\ hist' = hist
             /\ fres' = fres
             /\ dres' = Return(None)
             /\ last_call' = last_call

\* Any two runs of the wrapped function are at least `delay` apart.
DebounceApart ==
    \A i, j \in 1..Len(hist) : i < j => hist[j] - hist[i] >= delay

\* C4: the debounce gate, and the distance between runs that follows from
\* it.
C4_Debounce == []DebounceApart /\ [][DebounceGate]_vars

\* The wrapped function has run twice and a later call was suppressed.
C4_Witness ==
    /\ delay > 0
    /\ Len(hist) >= 2
    /\ dcalls > Len(hist)
    /\ dres = Return(None)
    /\ wall - LastRun < delay
    /\ wall > LastRun

\* The simulated call of the fetch_by_id that finished last failed: it timed
\* out, raised, or the User built from its answer did not validate.
FetchFailed(l) ==
    /\ l.op = "fetch_by_id"
    /\ \/ l.sim \in {"timeout", "error"}
       \/ l.sim = "ok" /\ ~_is_valid_email(FetchEmail(l.arg))

\* C5: a fetch_by_id whose simulated call fails returns None and adds no
\* entry to the cache.
C5_FailureIsNone ==
    [][FetchFailed(last') => (last'.outcome = Return(None) /\ cache' = cache)]_vars

\* A fetch_by_id for an id that is not cached has failed, in a service that
\* holds other users.
C5_Witness ==
    /\ FetchFailed(last)
    /\ last.arg \notin CacheKeys(cache)
    /\ Len(cache) > 0

\* The lines printed by the logged call in progress or finished last.
Mine == SubSeq(console, lpc.mark + 1, Len(console))

StartsWithCalling == Len(Mine) >= 1 /\ Mine[1].tag = "Calling"

\* The call ended the way the operation ended, after exactly one line with
\* the given tag and content.
EndedWith(tag, what) ==
    /\ Len(Mine) = 2
    /\ Mine[2].tag = tag
    /\ Mine[2].what = what
    /\ lres = lpc.op

\* C6 as stated: every finished call printed one Calling line and then
\* either a returned line, returning the operation's result, or a raised
\* line, raising the operation's exception again; never both, never neither.
C6_ReturnedOrRaised ==
    lpc.pc = "done" =>
        /\ StartsWithCalling
        /\ \/ lpc.op.kind = "return" /\ EndedWith("returned", lpc.op.value)
           \/ lpc.op.kind = "raise" /\ EndedWith("raised", lpc.op.exc)

\* C6 as amended: as C6 for an operation that returns or raises an
\* Exception; an operation that raises a BaseException outside Exception
\* ends the call with that exception and with neither line.  While the
\* operation runs, the Calling line is the only line of the call.
C6_ReturnedRaisedOrPassed ==
    /\ lpc.pc = "awaiting" => (StartsWithCalling /\ Len(Mine) = 1)
    /\ lpc.pc = "done" =>
        /\ StartsWithCalling
        /\ \/ lpc.op.kind = "return" /\ EndedWith("returned", lpc.op.value)
           \/ /\ lpc.op.kind = "raise"
              /\ lpc.op.exc \in Exceptions
              /\ EndedWith("raised", lpc.op.exc)
           \/ /\ lpc.op.kind = "raise"
              /\ lpc.op.exc \in BaseOnly
              /\ Len(Mine) = 1
              /\ lres = lpc.op

\* A logged call has ended by raising an Exception, after an earlier call.
C6_Witness ==
    /\ lpc.pc = "done"
    /\ lpc.n >= 2
    /\ lpc.op.kind = "raise"
    /\ lpc.op.exc \in Exceptions
    /\ Len(Mine) = 2

\* C7: between calls, the id create_user would assign next is not a key of
\* the cache, so create_user replaces no entry.
C7_CreateIdFresh == Quiescent => (Len(cache) + 1) \notin CacheKeys(cache)

\* C8: a create_user whose email fails validation raises ValueError and
\* leaves the cache, and so the next id, as they were.
C8_FailedCreateKeepsState ==
    [][(last'.op = "create_user" /\ ~_is_valid_email(last'.arg))
          => /\ last'.outcome = Raise("ValueError", last'.arg)
             /\ cache' = cache
             /\ Len(cache') + 1 = Len(cache) + 1]_vars

\* A create_user has failed in a service that holds users.
C8_Witness ==
    /\ last.op = "create_user"
    /\ last.outcome.kind = "raise"
    /\ Len(cache) >= 1
    /\ nextObj <= MaxObj

\* Every entry of the cache is keyed by its user's id.
KeyedById == \A i \in 1..Len(cache) : cache[i].val.id = cache[i].key

\* C9: every entry is keyed by its user's id, no key leaves the cache, and
\* get_users_by_role leaves the cache as it was.
C9_CacheKeyedNoEviction ==
    /\ []KeyedById
    /\ [][/\ CacheKeys(cache) \subseteq CacheKeys(cache')
          /\ last'.op = "get_users_by_role" => cache' = cache]_vars

\* get_users_by_role has answered with a user, from a cache that fetch_by_id
\* and create_user have both filled.
C9_Witness ==
    /\ last.op = "get_users_by_role"
    /\ Len(last.outcome.value.list) >= 1
    /\ Len(cache) >= 2
    /\ \E id \in Ids : built[id] > 0

\* C10: with tasks interleaving at the await, all fetch_by_id calls for an
\* id return the same user, at most one User is built for an id, and a
\* resuming fetch_by_id replaces no entry stored in the meantime.
C10_NoCacheRace ==
    /\ SameAsFirst
    /\ \A id \in Ids : built[id] <= 1
    /\ ~clobbered

============================================================================
